---- MODULE Spec2Model ----
(***************************************************************************)
(* The task store of my-little-task-box (composable useTasks.ts, carried   *)
(* in src/README.md lines 133-244), the TaskView handlers that call it     *)
(* (src/src/components/TaskInput.vue lines 82-142) and the components      *)
(* TaskInput, TaskList and TaskItem (src/src/components).                  *)
(*                                                                         *)
(* A string is the sequence of its UTF-16 code units (32 is the space, 9   *)
(* the tab, 97 the letter a, 100 the letter d), so that trim() is computed *)
(* and not assumed.  A Date is the integer number of clock ticks           *)
(* (milliseconds) it holds.  Array indices are 1-based; index 0 stands for *)
(* the -1 of findIndex.                                                    *)
(***************************************************************************)
EXTENDS Integers, Sequences, FiniteSets, TLC

VARIABLES
    tasks,      \* tasks.value: the ordered collection of Task records
    nextId,     \* the module-level auto-increment counter
    clock,      \* the value of the last clock reading (new Date())
    lastOp,     \* the last call: its name, its id argument, its outcome
    issued,     \* history: ids assigned by addTask since the last clearAllTasks, in order
    issuedEver, \* history: every id assigned by addTask since the module was loaded
    currentFilter, \* TaskView: the display filter
    form,       \* TaskInput: the refs title, description, isExpanded
    emitted     \* the events emitted by the last component method that can emit

\* the state of the store, with its history
store == <<tasks, nextId, clock, lastOp, issued, issuedEver>>

\* the state of the components
view == <<currentFilter, form, emitted>>

vars == <<tasks, nextId, clock, lastOp, issued, issuedEver, currentFilter, form, emitted>>

----------------------------------------------------------------------------
(* Bounds of the model *)

\* addTask is explored while the counter is at most MaxId
MaxId == 2

\* clock readings are explored up to MaxTime ticks
MaxTime == 1

----------------------------------------------------------------------------
(* Inputs *)

\* titles passed to addTask: empty; white space only (a tab, a no-break
\* space, a line separator, a byte order mark); the letter a padded with a
\* tab, a line feed and a space; the letter a
TitleInputs ==
    { <<>>,
      << 9, 160, 8232, 65279 >>,
      << 9, 97, 10, 32 >>,
      << 97 >> }

\* descriptions passed to addTask: the default '' and the letter d padded
\* with a space and a line feed
DescriptionInputs == { <<>>, << 32, 100, 10 >> }

\* titles the title input of TaskInput can hold.  An <input type="text">
\* keeps no line feed and no carriage return, so none of these has one:
\* empty; white space only (a tab, a no-break space, a line separator, a
\* byte order mark); one of every white space code unit the input can hold;
\* the letter a padded with a tab and two spaces; the letter a padded with an
\* ideographic space and a hair space; the letter a
FormTitleInputs ==
    { <<>>,
      << 9, 160, 8232, 65279 >>,
      << 9, 11, 12, 32, 160, 5760, 8192, 8193, 8194, 8195, 8196, 8197,
         8198, 8199, 8200, 8201, 8202, 8232, 8233, 8239, 8287, 12288, 65279 >>,
      << 9, 97, 32, 32 >>,
      << 12288, 97, 8202 >>,
      << 97 >> }

\* the partial objects passed to updateTask: nothing, a blank title, a
\* description, a completion flag
UpdateInputs ==
    { <<>>,
      [title |-> <<32>>],
      [description |-> <<100>>],
      [completed |-> TRUE] }

\* the (title, description) pairs an update event carries to handleUpdateTask
EditInputs == { << <<32>>, <<100>> >> }

\* the inputs of the calls explored on the longer collection: the empty
\* partial and a completion flag; every id that can be assigned there, and
\* one that never is
OrderUpdateInputs == { <<>>, [completed |-> TRUE] }
OrderIdInputs == 1..(MaxId + 2)

\* the display filters of TaskView and TaskList
FilterInputs == {"all", "pending", "completed"}

\* ids passed to the operations that look a task up: every id that can be
\* assigned, and one that never is
IdInputs == 1..(MaxId + 1)

----------------------------------------------------------------------------
(* Pure functions *)

\* let nextId = 1
InitialId == 1

\* the code units String.prototype.trim removes: the WhiteSpace and the
\* LineTerminator of ECMAScript (tab, line feed, vertical tab, form feed,
\* carriage return, space, no-break space, the other space separators of
\* Unicode, line and paragraph separator, byte order mark)
WhiteSpace ==
    {9, 10, 11, 12, 13, 32, 160, 5760} \cup (8192..8202)
        \cup {8232, 8233, 8239, 8287, 12288, 65279}

RECURSIVE TrimStart(_)
TrimStart(s) ==
    IF s = <<>> THEN s
    ELSE IF Head(s) \in WhiteSpace THEN TrimStart(Tail(s)) ELSE s

RECURSIVE TrimEnd(_)
TrimEnd(s) ==
    IF s = <<>> THEN s
    ELSE IF s[Len(s)] \in WhiteSpace THEN TrimEnd(SubSeq(s, 1, Len(s) - 1)) ELSE s

\* title.trim()
Trim(s) == TrimEnd(TrimStart(s))

\* a blank test that forgets to trim
IsBlankUntrimmed(s) == s = <<>>

\* !title.trim(): the empty string is the only falsy string
IsBlank(s) == Trim(s) = <<>>

\* new Date(): a reading of a non-decreasing clock whose last reading was c;
\* the clock has millisecond resolution, so two readings in a row may agree
ClockReads(c) == { t \in c..(c + 1) : t <= MaxTime }

\* an object literal that stores the title as typed
NewTaskRawTitle(id, title, description, t1, t2) ==
    [ id          |-> id,
      title       |-> title,
      description |-> Trim(description),
      completed   |-> FALSE,
      createdAt   |-> t1,
      updatedAt   |-> t2 ]

\* an object literal whose two clock readings are taken in the other order
NewTaskSwappedDates(id, title, description, t1, t2) ==
    [ id          |-> id,
      title       |-> Trim(title),
      description |-> Trim(description),
      completed   |-> FALSE,
      createdAt   |-> t2,
      updatedAt   |-> t1 ]

\* the object literal of addTask; t1 and t2 are its two clock readings
NewTask(id, title, description, t1, t2) ==
    [ id          |-> id,
      title       |-> Trim(title),
      description |-> Trim(description),
      completed   |-> FALSE,
      createdAt   |-> t1,
      updatedAt   |-> t2 ]

\* tasks.value.findIndex((task) => task.id === id); 0 when there is none
FindIndex(ts, id) ==
    IF \E i \in 1..Len(ts) : ts[i].id = id
    THEN CHOOSE i \in 1..Len(ts) :
            /\ ts[i].id = id
            /\ \A j \in 1..(i - 1) : ts[j].id # id
    ELSE 0

\* a spread written in the other order: the existing fields win
MergeTaskExistingWins(existingTask, updates, t) ==
    ("updatedAt" :> t) @@ existingTask @@ updates

\* a merge that stamps both dates with the reading of the update
MergeTaskRenews(existingTask, updates, t) ==
    ("updatedAt" :> t) @@ ("createdAt" :> t) @@ updates @@ existingTask

\* a merge that forgets to refresh updatedAt
MergeTaskKeepsDate(existingTask, updates, t) ==
    updates @@ existingTask

\* { ...existingTask, ...updates, updatedAt: new Date() }
MergeTask(existingTask, updates, t) ==
    ("updatedAt" :> t) @@ updates @@ existingTask

\* a removal that moves the last task into the freed place and pops
SpliceSwapWithLast(ts, taskIndex) ==
    IF taskIndex = Len(ts) THEN SubSeq(ts, 1, Len(ts) - 1)
    ELSE [ SubSeq(ts, 1, Len(ts) - 1) EXCEPT ![taskIndex] = ts[Len(ts)] ]

\* splice(taskIndex) without a delete count: removes up to the end
SpliceToEnd(ts, taskIndex) ==
    SubSeq(ts, 1, taskIndex - 1)

\* tasks.value.splice(taskIndex, 1)
Splice(ts, taskIndex) ==
    SubSeq(ts, 1, taskIndex - 1) \o SubSeq(ts, taskIndex + 1, Len(ts))

\* array.filter(pred): the subsequence of the elements with completed = flag
RECURSIVE FilterCompleted(_, _)
FilterCompleted(ts, flag) ==
    IF ts = <<>> THEN <<>>
    ELSE IF Head(ts).completed = flag
         THEN <<Head(ts)>> \o FilterCompleted(Tail(ts), flag)
         ELSE FilterCompleted(Tail(ts), flag)

\* an update that removes the task and pushes the merged record at the end
UpdatedTasksToEnd(ts, id, updates, t) ==
    LET taskIndex == FindIndex(ts, id) IN
    IF taskIndex = 0 THEN ts
    ELSE Append(Splice(ts, taskIndex), MergeTask(ts[taskIndex], updates, t))

\* the collection after updateTask(id, updates) whose clock reading is t
UpdatedTasks(ts, id, updates, t) ==
    LET taskIndex == FindIndex(ts, id) IN
    IF taskIndex = 0 THEN ts
    ELSE [ts EXCEPT ![taskIndex] = MergeTask(ts[taskIndex], updates, t)]

\* a lookup that takes the id for the position in the array
FindByPosition(ts, id) ==
    IF id \in 1..Len(ts) THEN <<ts[id]>> ELSE <<>>

\* tasks.value.find((task) => task.id === id): <<>> for undefined
Find(ts, id) ==
    LET taskIndex == FindIndex(ts, id) IN
    IF taskIndex = 0 THEN <<>> ELSE <<ts[taskIndex]>>

\* a toggle that always marks the task completed
ToggledTasksSets(ts, id, t) ==
    IF Find(ts, id) = <<>> THEN ts
    ELSE UpdatedTasks(ts, id, [completed |-> TRUE], t)

\* the collection after toggleTaskComplete(id) whose clock reading is t:
\* if (task) updateTask(id, { completed: !task.completed })
ToggledTasks(ts, id, t) ==
    IF Find(ts, id) = <<>> THEN ts
    ELSE UpdatedTasks(ts, id, [completed |-> ~Find(ts, id)[1].completed], t)

\* a view whose predicate is negated
completedTasksNegated == FilterCompleted(tasks, FALSE)

\* the computed views
completedTasks == FilterCompleted(tasks, TRUE)
pendingTasks == FilterCompleted(tasks, FALSE)
totalTasks == Len(tasks)

\* a TaskList whose 'pending' case keeps the completed tasks
TaskListFilteredTasksNegated(propsTasks, filter) ==
    CASE filter = "pending"   -> FilterCompleted(propsTasks, TRUE)
      [] filter = "completed" -> FilterCompleted(propsTasks, TRUE)
      [] OTHER                -> propsTasks

\* TaskList: filteredTasks, props.tasks filtered by props.filter
TaskListFilteredTasks(propsTasks, filter) ==
    CASE filter = "pending"   -> FilterCompleted(propsTasks, FALSE)
      [] filter = "completed" -> FilterCompleted(propsTasks, TRUE)
      [] OTHER                -> propsTasks

\* TaskView: filteredTasks, the view of the store picked by the filter
TaskViewFilteredTasks(filter) ==
    CASE filter = "pending"   -> pendingTasks
      [] filter = "completed" -> completedTasks
      [] OTHER                -> tasks

\* the tasks TaskList renders a TaskItem for: TaskView hands its
\* filteredTasks and its currentFilter to TaskList as :tasks and :filter
DisplayedTasks ==
    TaskListFilteredTasks(TaskViewFilteredTasks(currentFilter), currentFilter)

\* the id TaskItem puts in its delete event: emit('delete', 1)
TaskItemDeleteId == 1

\* the refs of TaskInput as they are set up, and as the reset leaves them
EmptyForm == [ title |-> <<>>, description |-> <<>>, isExpanded |-> FALSE ]

\* an event: its name and its arguments
Event(name, args) == [ name |-> name, args |-> args ]

----------------------------------------------------------------------------
(* The record of a call *)

\* op: the operation; id: its id argument (0 when it has none); ok: whether
\* it passed its guard (a non-blank title, an id that was found); result:
\* what getTaskById returned, <<>> for undefined
Call(op, id, ok, result) ==
    [ op |-> op, id |-> id, ok |-> ok, result |-> result ]

----------------------------------------------------------------------------
(* Initial state: the module has just been loaded *)

Init ==
    /\ tasks = <<>>
    /\ nextId = InitialId
    /\ clock = 0
    /\ lastOp = Call("load", 0, TRUE, <<>>)
    /\ issued = <<>>
    /\ issuedEver = {}
    /\ currentFilter = "all"
    /\ form = EmptyForm
    /\ emitted = <<>>

----------------------------------------------------------------------------
(* Operations of useTasks() *)

\* addTask, explored while the counter is at most limit
AddTaskUpTo(limit, title, description) ==
    /\ lastOp' = Call("addTask", 0, ~IsBlank(title), <<>>)
    /\ IF IsBlank(title)
       THEN UNCHANGED <<tasks, nextId, clock, issued, issuedEver>>
       ELSE /\ nextId <= limit
            /\ \E t1 \in ClockReads(clock) : \E t2 \in ClockReads(t1) :
                 LET newTask == NewTask(nextId, title, description, t1, t2) IN
                 /\ tasks' = Append(tasks, newTask)
                 /\ clock' = t2
                 /\ issued' = Append(issued, newTask.id)
                 /\ issuedEver' = issuedEver \cup {newTask.id}
            /\ nextId' = nextId + 1

AddTask(title, description) == AddTaskUpTo(MaxId, title, description)

UpdateTask(id, updates) ==
    /\ lastOp' = Call("updateTask", id, FindIndex(tasks, id) # 0, <<>>)
    /\ IF FindIndex(tasks, id) = 0
       THEN UNCHANGED <<tasks, clock>>
       ELSE \E t \in ClockReads(clock) :
                /\ tasks' = UpdatedTasks(tasks, id, updates, t)
                /\ clock' = t
    /\ UNCHANGED <<nextId, issued, issuedEver>>

\* a deleteTask that gives the freed id back to the counter
DeleteTaskRewinds(id) ==
    /\ lastOp' = Call("deleteTask", id, FindIndex(tasks, id) # 0, <<>>)
    /\ tasks' = IF FindIndex(tasks, id) = 0 THEN tasks
                ELSE Splice(tasks, FindIndex(tasks, id))
    /\ nextId' = IF FindIndex(tasks, id) = 0 THEN nextId ELSE nextId - 1
    /\ UNCHANGED <<clock, issued, issuedEver>>

\* a deleteTask without the early return: splice(-1, 1) removes the last task
DeleteTaskUnguarded(id) ==
    /\ lastOp' = Call("deleteTask", id, FindIndex(tasks, id) # 0, <<>>)
    /\ tasks' = IF FindIndex(tasks, id) = 0 THEN SubSeq(tasks, 1, Len(tasks) - 1)
                ELSE Splice(tasks, FindIndex(tasks, id))
    /\ UNCHANGED <<nextId, clock, issued, issuedEver>>

DeleteTask(id) ==
    /\ lastOp' = Call("deleteTask", id, FindIndex(tasks, id) # 0, <<>>)
    /\ tasks' = IF FindIndex(tasks, id) = 0 THEN tasks
                ELSE Splice(tasks, FindIndex(tasks, id))
    /\ UNCHANGED <<nextId, clock, issued, issuedEver>>

\* a toggle that always marks the task completed
ToggleTaskCompleteSets(id) ==
    /\ lastOp' = Call("toggleTaskComplete", id, Find(tasks, id) # <<>>, <<>>)
    /\ IF Find(tasks, id) = <<>>
       THEN UNCHANGED <<tasks, clock>>
       ELSE \E t \in ClockReads(clock) :
                /\ tasks' = UpdatedTasks(tasks, id, [completed |-> TRUE], t)
                /\ clock' = t
    /\ UNCHANGED <<nextId, issued, issuedEver>>

ToggleTaskComplete(id) ==
    /\ lastOp' = Call("toggleTaskComplete", id, Find(tasks, id) # <<>>, <<>>)
    /\ IF Find(tasks, id) = <<>>
       THEN UNCHANGED <<tasks, clock>>
       ELSE \E t \in ClockReads(clock) :
                /\ tasks' = ToggledTasks(tasks, id, t)
                /\ clock' = t
    /\ UNCHANGED <<nextId, issued, issuedEver>>

\* a clearCompletedTasks that also resets the counter, as clearAllTasks does
ClearCompletedTasksResets ==
    /\ lastOp' = Call("clearCompletedTasks", 0, TRUE, <<>>)
    /\ tasks' = FilterCompleted(tasks, FALSE)
    /\ nextId' = InitialId
    /\ UNCHANGED <<clock, issued, issuedEver>>

\* a clearCompletedTasks whose predicate is negated
ClearCompletedTasksNegated ==
    /\ lastOp' = Call("clearCompletedTasks", 0, TRUE, <<>>)
    /\ tasks' = FilterCompleted(tasks, TRUE)
    /\ UNCHANGED <<nextId, clock, issued, issuedEver>>

ClearCompletedTasks ==
    /\ lastOp' = Call("clearCompletedTasks", 0, TRUE, <<>>)
    /\ tasks' = FilterCompleted(tasks, FALSE)
    /\ UNCHANGED <<nextId, clock, issued, issuedEver>>

\* a clearAllTasks that leaves the counter where it is
ClearAllTasksKeepsCounter ==
    /\ lastOp' = Call("clearAllTasks", 0, TRUE, <<>>)
    /\ tasks' = <<>>
    /\ issued' = <<>>
    /\ UNCHANGED <<nextId, clock, issuedEver>>

ClearAllTasks ==
    /\ lastOp' = Call("clearAllTasks", 0, TRUE, <<>>)
    /\ tasks' = <<>>
    /\ nextId' = InitialId
    /\ issued' = <<>>
    /\ UNCHANGED <<clock, issuedEver>>

GetTaskById(id) ==
    /\ lastOp' = Call("getTaskById", id, TRUE, Find(tasks, id))
    /\ UNCHANGED <<tasks, nextId, clock, issued, issuedEver>>

----------------------------------------------------------------------------
(* Handlers of TaskView *)

\* updateTask(id, { title, description })
HandleUpdateTask(id, title, description) ==
    UpdateTask(id, [title |-> title, description |-> description])

----------------------------------------------------------------------------

\* the calls of the store, made by any importer of useTasks; they leave the
\* state of the components alone
Next ==
    \/ \E title \in TitleInputs, description \in DescriptionInputs :
            AddTask(title, description) /\ UNCHANGED view
    \/ \E id \in IdInputs, updates \in UpdateInputs :
            UpdateTask(id, updates) /\ UNCHANGED view
    \/ \E id \in IdInputs : DeleteTask(id) /\ UNCHANGED view
    \/ \E id \in IdInputs : ToggleTaskComplete(id) /\ UNCHANGED view
    \/ ClearCompletedTasks /\ UNCHANGED view
    \/ ClearAllTasks /\ UNCHANGED view
    \/ \E id \in IdInputs : GetTaskById(id) /\ UNCHANGED view
    \/ \E id \in IdInputs, e \in EditInputs :
            HandleUpdateTask(id, e[1], e[2]) /\ UNCHANGED view

Spec == Init /\ [][Next]_vars

\* the calls that can write to the store: every call but getTaskById, which
\* only reads
NextWrites ==
    \/ \E title \in TitleInputs, description \in DescriptionInputs :
            AddTask(title, description) /\ UNCHANGED view
    \/ \E id \in IdInputs, updates \in UpdateInputs :
            UpdateTask(id, updates) /\ UNCHANGED view
    \/ \E id \in IdInputs : DeleteTask(id) /\ UNCHANGED view
    \/ \E id \in IdInputs : ToggleTaskComplete(id) /\ UNCHANGED view
    \/ ClearCompletedTasks /\ UNCHANGED view
    \/ ClearAllTasks /\ UNCHANGED view
    \/ \E id \in IdInputs, e \in EditInputs :
            HandleUpdateTask(id, e[1], e[2]) /\ UNCHANGED view

SpecWrites == Init /\ [][NextWrites]_vars

----------------------------------------------------------------------------
(* Handlers of TaskView and methods of the components.  An emit calls the  *)
(* parent's handler before it returns, so a click is one step.             *)

\* TaskView: handleAddTask
HandleAddTask(title, description) == AddTask(title, description)

\* TaskView: handleDeleteTask
HandleDeleteTask(id) == DeleteTask(id)

\* TaskView: setFilter; the filter buttons are rendered while totalTasks > 0
SetFilter(filter) ==
    /\ totalTasks > 0
    /\ currentFilter' = filter
    /\ emitted' = <<>>
    /\ UNCHANGED <<store, form>>

\* TaskView: the Clear Completed button, rendered while a task is completed
ClickClearCompleted ==
    /\ totalTasks > 0 /\ Len(completedTasks) > 0
    /\ ClearCompletedTasks
    /\ UNCHANGED view

\* TaskView: the Clear All button, rendered while totalTasks > 0
ClickClearAll ==
    /\ totalTasks > 0
    /\ ClearAllTasks
    /\ UNCHANGED view

\* TaskList: handleDelete forwards the event to TaskView: emit('delete', id)
TaskListHandleDelete(id) == HandleDeleteTask(id)

\* TaskItem: handleDelete, on a click on Delete in the k-th item displayed
TaskItemHandleDelete(k) ==
    /\ k \in 1..Len(DisplayedTasks)
    /\ emitted' = << Event("delete", <<TaskItemDeleteId>>) >>
    /\ TaskListHandleDelete(emitted'[1].args[1])
    /\ UNCHANGED <<currentFilter, form>>

\* TaskInput: v-model="title", on the input of the expanded form
TypeTitle(text) ==
    /\ form.isExpanded
    /\ form' = [form EXCEPT !.title = text]
    /\ UNCHANGED <<store, currentFilter, emitted>>

\* TaskInput: v-model="description", on the textarea of the expanded form
TypeDescription(text) ==
    /\ form.isExpanded
    /\ form' = [form EXCEPT !.description = text]
    /\ UNCHANGED <<store, currentFilter, emitted>>

\* TaskInput: toggleExpanded, on the button rendered while the form is
\* collapsed
ToggleExpanded ==
    /\ ~form.isExpanded
    /\ form' = [form EXCEPT !.isExpanded = ~form.isExpanded]
    /\ emitted' = <<>>
    /\ UNCHANGED <<store, currentFilter>>

\* a TaskInput addTask that emits the title and the description as typed
TaskInputAddTaskRaw ==
    /\ form.isExpanded
    /\ IF IsBlank(form.title)
       THEN /\ emitted' = <<>>
            /\ UNCHANGED <<store, form>>
       ELSE /\ emitted' = << Event("add", <<form.title, form.description>>) >>
            /\ HandleAddTask(emitted'[1].args[1], emitted'[1].args[2])
            /\ form' = EmptyForm
    /\ UNCHANGED currentFilter

\* TaskInput: addTask, on Enter in the title input or a click on Add Task
TaskInputAddTask ==
    /\ form.isExpanded
    /\ IF IsBlank(form.title)
       THEN /\ emitted' = <<>>
            /\ UNCHANGED <<store, form>>
       ELSE /\ emitted' = << Event("add", <<Trim(form.title), Trim(form.description)>>) >>
            /\ HandleAddTask(emitted'[1].args[1], emitted'[1].args[2])
            /\ form' = EmptyForm
    /\ UNCHANGED currentFilter

\* TaskInput: cancelAdd, on the Cancel button of the expanded form
CancelAdd ==
    /\ form.isExpanded
    /\ form' = EmptyForm
    /\ emitted' = <<>>
    /\ UNCHANGED <<store, currentFilter>>

\* the add events TaskInput can emit
AddEvents ==
    { <<Trim(title), Trim(description)>> :
        title \in { t \in FormTitleInputs : ~IsBlank(t) },
        description \in DescriptionInputs }

\* the list on the screen: the add events that reach TaskView, the clicks on
\* the items, the filter and the clear buttons, and toggleTaskComplete called
\* on the store by another importer of useTasks
NextView ==
    \/ \E e \in AddEvents : HandleAddTask(e[1], e[2]) /\ UNCHANGED view
    \/ \E k \in 1..MaxId : TaskItemHandleDelete(k)
    \/ \E filter \in FilterInputs : SetFilter(filter)
    \/ ClickClearCompleted
    \/ ClickClearAll
    \/ \E id \in IdInputs : ToggleTaskComplete(id) /\ UNCHANGED view

SpecView == Init /\ [][NextView]_vars

\* the form of TaskInput: typing, expanding, adding, cancelling, and the
\* Clear All button that makes room for more tasks
NextForm ==
    \/ \E text \in FormTitleInputs : TypeTitle(text)
    \/ \E text \in DescriptionInputs : TypeDescription(text)
    \/ ToggleExpanded
    \/ TaskInputAddTask
    \/ CancelAdd
    \/ ClickClearAll

SpecForm == Init /\ [][NextForm]_vars

\* the calls of the store on a collection of up to MaxId + 1 tasks, so that
\* a removal can leave two tasks behind and an add can find two; the texts
\* stored, which play no part in the order, are not varied
NextOrder ==
    \/ \E title \in TitleInputs :
            AddTaskUpTo(MaxId + 1, title, <<>>) /\ UNCHANGED view
    \/ \E id \in OrderIdInputs, updates \in OrderUpdateInputs :
            UpdateTask(id, updates) /\ UNCHANGED view
    \/ \E id \in OrderIdInputs : DeleteTask(id) /\ UNCHANGED view
    \/ \E id \in OrderIdInputs : ToggleTaskComplete(id) /\ UNCHANGED view
    \/ ClearCompletedTasks /\ UNCHANGED view
    \/ ClearAllTasks /\ UNCHANGED view
    \/ \E id \in OrderIdInputs : GetTaskById(id) /\ UNCHANGED view

SpecOrder == Init /\ [][NextOrder]_vars

----------------------------------------------------------------------------
(* Properties *)

\* the task appended last
LastTask == tasks[Len(tasks)]

\* a step in which addTask built and appended a task
AddedStep == Len(issued') = Len(issued) + 1

\* C1: in every reachable state no two tasks of the collection have the
\* same id.
C1_UniqueIds ==
    \A i, j \in 1..Len(tasks) : i # j => tasks[i].id # tasks[j].id

\* a second task has just been added to the collection
C1_Witness ==
    /\ Len(tasks) = 2
    /\ lastOp.op = "addTask" /\ lastOp.ok
    /\ tasks[1].id # tasks[2].id

\* C2: of two successful addTask calls with no clearAllTasks between them,
\* the earlier is assigned the strictly smaller id, whatever is interleaved.
C2_MonotonicIds ==
    \A i, j \in 1..Len(issued) : i < j => issued[i] < issued[j]

\* two ids were assigned and the first task is gone again
C2_Witness ==
    /\ Len(issued) >= 2
    /\ Len(tasks) < Len(issued)
    /\ issued[1] < issued[2]

\* C3 as stated: no two successful addTask calls are ever assigned the
\* same id, over any sequence of operations.
C3_NeverReused ==
    [][AddedStep => issued'[Len(issued')] \notin issuedEver]_vars

\* C3 as amended: no two successful addTask calls with no clearAllTasks
\* between them are assigned the same id.
C3_NoReuseSinceClear ==
    \A i, j \in 1..Len(issued) : i # j => issued[i] # issued[j]

\* an id handed out before a clearAllTasks has been handed out again
C3_Witness ==
    /\ lastOp.op = "addTask" /\ lastOp.ok
    /\ Len(issued) = 1
    /\ Cardinality(issuedEver) >= 2
    /\ issued[1] \in issuedEver

\* C4: in every reachable state the id counter is strictly greater than the
\* id of every task of the collection.
C4_CounterAboveIds ==
    \A i \in 1..Len(tasks) : tasks[i].id < nextId

\* the task added last was deleted: the counter stays more than one above
\* the largest id still held
C4_Witness ==
    /\ Len(tasks) >= 1
    /\ lastOp.op = "deleteTask" /\ lastOp.ok
    /\ nextId > LastTask.id + 1

\* C5: the counter changes only by a successful addTask, which adds exactly
\* 1, and by clearAllTasks, which sets it to its initial value; every other
\* call, and a blank addTask, leaves it unchanged.
C5_CounterFrame ==
    [][ /\ (lastOp'.op = "addTask" /\ lastOp'.ok) => nextId' = nextId + 1
        /\ lastOp'.op = "clearAllTasks" => nextId' = InitialId
        /\ ~(lastOp'.op = "addTask" /\ lastOp'.ok) /\ lastOp'.op # "clearAllTasks"
              => nextId' = nextId ]_vars

\* a task was deleted and the counter still stands past its id
C5_Witness ==
    /\ lastOp.op \in {"deleteTask", "clearCompletedTasks"}
    /\ Len(tasks) < Len(issued)
    /\ nextId = Len(issued) + 1

\* C6: addTask with a title that is empty after trimming changes neither
\* the collection nor the counter.
C6_BlankAddNoOp ==
    [][ lastOp'.op = "addTask" =>
          \A title \in TitleInputs, description \in DescriptionInputs :
            (Trim(title) = <<>> /\ AddTask(title, description))
                => (tasks' = tasks /\ nextId' = nextId) ]_vars

\* a blank addTask was called on a collection that holds a task
C6_Witness ==
    /\ lastOp.op = "addTask" /\ ~lastOp.ok
    /\ Len(tasks) >= 1

\* what C7 says of a step of addTask(title, description) but for the
\* description: one task is appended, with the counter as id, the trimmed
\* title and completed = false, and the tasks already held keep their
\* fields and their places
AppendsOne(title) ==
    /\ Len(tasks') = Len(tasks) + 1
    /\ SubSeq(tasks', 1, Len(tasks)) = tasks
    /\ tasks'[Len(tasks')].id = nextId
    /\ tasks'[Len(tasks')].title = Trim(title)
    /\ tasks'[Len(tasks')].completed = FALSE

\* C7 as stated: addTask with a non-blank title appends exactly one task
\* that carries the description as given.
C7_AddAppendsGiven ==
    [][ lastOp'.op = "addTask" =>
          \A title \in TitleInputs, description \in DescriptionInputs :
            (Trim(title) # <<>> /\ AddTask(title, description))
                => /\ AppendsOne(title)
                   /\ tasks'[Len(tasks')].description = description ]_vars

\* C7 as amended: addTask with a non-blank title appends exactly one task
\* that carries the trimmed description.
C7_AddAppendsTrimmed ==
    [][ lastOp'.op = "addTask" =>
          \A title \in TitleInputs, description \in DescriptionInputs :
            (Trim(title) # <<>> /\ AddTask(title, description))
                => /\ AppendsOne(title)
                   /\ tasks'[Len(tasks')].description = Trim(description) ]_vars

\* a second task was appended, its padded description stored trimmed
C7_Witness ==
    /\ lastOp.op = "addTask" /\ lastOp.ok
    /\ Len(tasks) = 2
    /\ LastTask.description = <<100>>
    /\ LastTask.title = <<97>>

\* C8: right after a successful addTask the new task's createdAt and
\* updatedAt are equal.
C8_CreatedEqualsUpdated ==
    (lastOp.op = "addTask" /\ lastOp.ok) => LastTask.createdAt = LastTask.updatedAt

\* C9: with a non-decreasing clock every task of the collection has
\* updatedAt >= createdAt in every reachable state.
C9_UpdatedNotBeforeCreated ==
    \A i \in 1..Len(tasks) : tasks[i].updatedAt >= tasks[i].createdAt

\* a task was updated at a later tick than it was created
C9_Witness ==
    /\ lastOp.op \in {"updateTask", "toggleTaskComplete"} /\ lastOp.ok
    /\ \E i \in 1..Len(tasks) :
          tasks[i].id = lastOp.id /\ tasks[i].updatedAt > tasks[i].createdAt

\* C10: in every reachable state every task of the collection has a title
\* that is non-empty and has no leading or trailing white space.
C10_TitlesTrimmed ==
    \A i \in 1..Len(tasks) :
        tasks[i].title # <<>> /\ Trim(tasks[i].title) = tasks[i].title

----------------------------------------------------------------------------
(* Properties of update, delete, toggle, clear and lookup *)

\* a task of ts has the id
Present(ts, id) == \E i \in 1..Len(ts) : ts[i].id = id

\* the place in ts of the task with the id
Position(ts, id) == CHOOSE i \in 1..Len(ts) : ts[i].id = id

\* ts without the tasks that have the id
Without(ts, id) == SelectSeq(ts, LAMBDA task : task.id # id)

\* every partial object that reaches updateTask, directly or from handleUpdateTask
AllUpdates ==
    UpdateInputs \cup { [title |-> e[1], description |-> e[2]] : e \in EditInputs }

\* the calls that look a task up by id and write
LookupOps == {"updateTask", "deleteTask", "toggleTaskComplete"}

\* what C11 says of the task that updateTask(id, updates) leaves in the
\* place of task: the id and createdAt of task, each field given in updates
\* with the given value, each field not given with the value it has in task;
\* updatedAt is left open
UpdatedAs(task, updates, after) ==
    LET given == DOMAIN updates IN
    after = [ id          |-> task.id,
              title       |-> IF "title" \in given THEN updates.title
                              ELSE task.title,
              description |-> IF "description" \in given THEN updates.description
                              ELSE task.description,
              completed   |-> IF "completed" \in given THEN updates.completed
                              ELSE task.completed,
              createdAt   |-> task.createdAt,
              updatedAt   |-> after.updatedAt ]

\* C11: updateTask(id, partial) on a present id replaces that task in place:
\* it keeps its id, its createdAt and its index; each of title, description,
\* completed given in partial takes the given value and each one not given
\* keeps its value; the length and every other task are unchanged.
C11_UpdateInPlace ==
    [][ (lastOp'.op = "updateTask" /\ Present(tasks, lastOp'.id)) =>
          LET i == Position(tasks, lastOp'.id) IN
          /\ Len(tasks') = Len(tasks)
          /\ \A j \in 1..Len(tasks) : j # i => tasks'[j] = tasks[j]
          /\ \A updates \in AllUpdates :
                tasks'[i] = MergeTask(tasks[i], updates, clock')
                    => UpdatedAs(tasks[i], updates, tasks'[i]) ]_vars

\* the second of two tasks was given a new title and kept its description
\* and its completion flag
C11_Witness ==
    /\ lastOp.op = "updateTask" /\ lastOp.ok /\ lastOp.id = 2
    /\ Len(tasks) = 2
    /\ tasks[2].id = 2
    /\ tasks[2].title = <<32>>
    /\ tasks[2].description = <<>>
    /\ tasks[1].title = <<97>>

\* C12 as stated: every updateTask or toggleTaskComplete on a present id
\* makes that task's updatedAt strictly greater than it was (looked at
\* while the clock is below MaxTime, where a reading can still be later
\* than the last one).
C12_UpdatedAtStrictlyGrows ==
    [][ (lastOp'.op \in {"updateTask", "toggleTaskComplete"}
            /\ Present(tasks, lastOp'.id)
            /\ clock < MaxTime)
          => tasks'[Position(tasks, lastOp'.id)].updatedAt
                > tasks[Position(tasks, lastOp'.id)].updatedAt ]_vars

\* C12 as amended: every updateTask or toggleTaskComplete on a present id
\* sets that task's updatedAt to the clock reading of the call, which is
\* never less than it was, and is greater when the clock has advanced.
C12_UpdatedAtNeverShrinks ==
    [][ (lastOp'.op \in {"updateTask", "toggleTaskComplete"}
            /\ Present(tasks, lastOp'.id))
          => LET i == Position(tasks, lastOp'.id) IN
             /\ tasks'[i].updatedAt = clock'
             /\ tasks'[i].updatedAt >= tasks[i].updatedAt
             /\ clock' > clock => tasks'[i].updatedAt > tasks[i].updatedAt ]_vars

\* a task was toggled within the tick it was created in: its updatedAt is
\* the current reading and did not grow
C12_Witness ==
    /\ lastOp.op = "toggleTaskComplete" /\ lastOp.ok
    /\ Present(tasks, lastOp.id)
    /\ tasks[Position(tasks, lastOp.id)].completed
    /\ tasks[Position(tasks, lastOp.id)].updatedAt = clock
    /\ tasks[Position(tasks, lastOp.id)].createdAt = clock

\* C13: updateTask, deleteTask and toggleTaskComplete with an id that is not
\* in the collection change neither the collection nor the counter (and read
\* no clock).
C13_AbsentIdNoOp ==
    [][ (lastOp'.op \in LookupOps /\ ~Present(tasks, lastOp'.id))
          => (tasks' = tasks /\ nextId' = nextId /\ clock' = clock) ]_vars

\* a call with an id that was assigned and deleted found a collection that
\* still holds another task
C13_Witness ==
    /\ lastOp.op \in LookupOps /\ ~lastOp.ok
    /\ Len(tasks) >= 1
    /\ ~Present(tasks, lastOp.id)
    /\ lastOp.id \in issuedEver

\* C14: deleteTask(id) on a present id removes exactly that task: the length
\* decreases by 1, the id is gone, and the other tasks are the same records
\* in the same order.
C14_DeleteRemovesOne ==
    [][ (lastOp'.op = "deleteTask" /\ Present(tasks, lastOp'.id))
          => /\ Len(tasks') = Len(tasks) - 1
             /\ ~Present(tasks', lastOp'.id)
             /\ tasks' = Without(tasks, lastOp'.id) ]_vars

\* the second of three tasks was deleted: the first and the third are left,
\* in that order
C14_Witness ==
    /\ lastOp.op = "deleteTask" /\ lastOp.ok /\ lastOp.id = 2
    /\ Len(tasks) = 2
    /\ tasks[1].id = 1 /\ tasks[2].id = 3

\* C15: deleteTask is idempotent: a deleteTask(id) that directly follows a
\* deleteTask(id) with the same id changes neither the collection nor the
\* counter.
C15_DeleteTwiceIsDeleteOnce ==
    [][ (lastOp.op = "deleteTask" /\ lastOp'.op = "deleteTask"
            /\ lastOp'.id = lastOp.id)
          => (tasks' = tasks /\ nextId' = nextId) ]_vars

\* task 1 of two was deleted and deleteTask(1) was called again: it found
\* nothing and task 2 is still there
C15_Witness ==
    /\ lastOp.op = "deleteTask" /\ ~lastOp.ok /\ lastOp.id = 1
    /\ 1 \in issuedEver
    /\ Len(tasks) = 1
    /\ tasks[1].id = 2

\* C16: toggleTaskComplete(id) on a present id negates that task's completed
\* flag and changes nothing else but its updatedAt; the task moves from
\* pendingTasks to completedTasks or back.
C16_ToggleNegates ==
    [][ (lastOp'.op = "toggleTaskComplete" /\ Present(tasks, lastOp'.id))
          => LET i == Position(tasks, lastOp'.id) IN
             /\ Len(tasks') = Len(tasks)
             /\ \A j \in 1..Len(tasks) : j # i => tasks'[j] = tasks[j]
             /\ tasks'[i].completed = ~tasks[i].completed
             /\ \A k \in {"id", "title", "description", "createdAt"} :
                    tasks'[i][k] = tasks[i][k]
             /\ Present(completedTasks', lastOp'.id) = Present(pendingTasks, lastOp'.id)
             /\ Present(pendingTasks', lastOp'.id) = Present(completedTasks, lastOp'.id) ]_vars

\* a completed task was toggled back to pending while the other task stays
\* completed
C16_Witness ==
    /\ lastOp.op = "toggleTaskComplete" /\ lastOp.ok /\ lastOp.id = 1
    /\ Len(tasks) = 2
    /\ tasks[1].id = 1 /\ ~tasks[1].completed
    /\ tasks[1].updatedAt > tasks[1].createdAt
    /\ tasks[2].completed

\* C17: clearCompletedTasks leaves the subsequence of the tasks with
\* completed = false, in order and unchanged; with no completed task the
\* collection is unchanged, with only completed tasks it becomes empty.
C17_ClearCompletedKeepsPending ==
    [][ lastOp'.op = "clearCompletedTasks"
          => /\ tasks' = SelectSeq(tasks, LAMBDA task : ~task.completed)
             /\ (\A i \in 1..Len(tasks) : ~tasks[i].completed) => tasks' = tasks
             /\ (\A i \in 1..Len(tasks) : tasks[i].completed) => tasks' = <<>> ]_vars

\* of three tasks added the second was completed: after clearCompletedTasks
\* the first and the third are left, in that order, both pending
C17_Witness ==
    /\ lastOp.op = "clearCompletedTasks"
    /\ Len(issued) = 3
    /\ Len(tasks) = 2
    /\ tasks[1].id = 1 /\ tasks[2].id = 3
    /\ ~tasks[1].completed /\ ~tasks[2].completed

\* C18: clearAllTasks leaves the collection empty and the counter at its
\* initial value; the successful addTask that follows it assigns the id that
\* the first addTask after loading assigns.
C18_ClearAllResets ==
    [][ /\ lastOp'.op = "clearAllTasks" => (tasks' = <<>> /\ nextId' = InitialId)
        /\ (lastOp.op \in {"load", "clearAllTasks"} /\ AddedStep)
              => tasks'[Len(tasks')].id = InitialId ]_vars

\* clearAllTasks was called after every id of the model had been assigned
C18_Witness ==
    /\ lastOp.op = "clearAllTasks"
    /\ issuedEver = 1..MaxId
    /\ tasks = <<>>
    /\ nextId = InitialId

\* C19: getTaskById(id) returns the task of the collection with that id, or
\* undefined when there is none, and changes neither the collection nor the
\* counter.
C19_GetTaskById ==
    [][ lastOp'.op = "getTaskById"
          => /\ lastOp'.result = IF Present(tasks, lastOp'.id)
                                 THEN <<tasks[Position(tasks, lastOp'.id)]>>
                                 ELSE <<>>
             /\ tasks' = tasks
             /\ nextId' = nextId ]_vars

\* getTaskById(2) returned task 2, which stands first since task 1 was
\* removed
C19_Witness ==
    /\ lastOp.op = "getTaskById" /\ lastOp.id = 2
    /\ Len(tasks) = 1
    /\ lastOp.result = <<tasks[1]>>
    /\ tasks[1].id = 2

\* C20: in every reachable state completedTasks is the subsequence of the
\* collection with completed = true and pendingTasks the subsequence with
\* completed = false, each in collection order.
C20_ViewsAreSubsequences ==
    /\ completedTasks = SelectSeq(tasks, LAMBDA task : task.completed = TRUE)
    /\ pendingTasks = SelectSeq(tasks, LAMBDA task : task.completed = FALSE)

\* the first task is pending and the second completed, so each view holds
\* one task
C20_Witness ==
    /\ Len(tasks) = 2
    /\ ~tasks[1].completed /\ tasks[2].completed
    /\ completedTasks = <<tasks[2]>>
    /\ pendingTasks = <<tasks[1]>>

----------------------------------------------------------------------------
(* Properties of the views, the order and the dates *)

\* the tasks of ts, as a set
TaskSet(ts) == { ts[i] : i \in 1..Len(ts) }

\* the ids of ts, in order
Ids(ts) == [ i \in 1..Len(ts) |-> ts[i].id ]

\* C21: in every reachable state pendingTasks and completedTasks are
\* disjoint, together they hold every task of the collection, and totalTasks
\* is the collection length, which is the sum of the lengths of the two views.
C21_ViewsPartition ==
    /\ TaskSet(pendingTasks) \cap TaskSet(completedTasks) = {}
    /\ TaskSet(pendingTasks) \cup TaskSet(completedTasks) = TaskSet(tasks)
    /\ totalTasks = Len(tasks)
    /\ Len(tasks) = Len(pendingTasks) + Len(completedTasks)

\* a completed task stands before a pending one: each view holds one of the
\* two tasks
C21_Witness ==
    /\ totalTasks = 2
    /\ tasks[1].completed /\ ~tasks[2].completed
    /\ Len(pendingTasks) = 1 /\ Len(completedTasks) = 1

\* C23: no operation reshuffles the collection: two tasks that are in the
\* collection before and after a call stand in the same order before and
\* after.  (Ids are unique, C1, so a step that leaves the sequence of ids as
\* it is leaves the order as it is.)
C23_OrderKept ==
    [][ Ids(tasks') # Ids(tasks) =>
          \A i, j \in 1..Len(tasks) : \A k, l \in 1..Len(tasks') :
              (i < j /\ tasks'[k].id = tasks[i].id /\ tasks'[l].id = tasks[j].id)
                  => k < l ]_vars

\* the first of three tasks was deleted after the third had been updated:
\* the second and the third are left, in that order
C23_Witness ==
    /\ lastOp.op = "deleteTask" /\ lastOp.ok /\ lastOp.id = 1
    /\ Len(tasks) = 2
    /\ tasks[1].id = 2 /\ tasks[2].id = 3
    /\ tasks[2].updatedAt > tasks[2].createdAt

\* C24: createdAt is immutable: a task that is in the collection before and
\* after a call has the same createdAt before and after.
C24_CreatedAtKept ==
    [][ \A i \in 1..Len(tasks) : \A k \in 1..Len(tasks') :
            tasks'[k].id = tasks[i].id
                => tasks'[k].createdAt = tasks[i].createdAt ]_vars

\* a task created at tick 0 was updated at a later tick and still carries
\* the date of its creation
C24_Witness ==
    /\ lastOp.op \in {"updateTask", "toggleTaskComplete"} /\ lastOp.ok
    /\ Present(tasks, lastOp.id)
    /\ tasks[Position(tasks, lastOp.id)].createdAt = 0
    /\ tasks[Position(tasks, lastOp.id)].updatedAt > 0
    /\ clock > 0

\* C30: in every reachable state the ids of the collection are strictly
\* increasing in collection order, and the collection holds at most
\* nextId - 1 tasks.
C30_IdsAscend ==
    /\ \A i \in 1..(Len(tasks) - 1) : tasks[i].id < tasks[i + 1].id
    /\ Len(tasks) <= nextId - 1

\* both tasks of the model are held, in the order of their ids, and the
\* collection is as long as the counter allows
C30_Witness ==
    /\ Len(tasks) = 2
    /\ tasks[1].id = 1 /\ tasks[2].id = 2
    /\ Len(tasks) = nextId - 1

\* C29: toggleTaskComplete is an involution on the completed flag: from any
\* reachable state, two calls of toggleTaskComplete(id) in a row on a present
\* id give the task its completed value back and leave the ids held by
\* completedTasks and pendingTasks as they were; of the task's fields only
\* updatedAt may differ, and no other task changes.
C29_ToggleTwice ==
    \A id \in IdInputs : Present(tasks, id) =>
        \A t1 \in ClockReads(clock) : \A t2 \in ClockReads(t1) :
            LET once  == ToggledTasks(tasks, id, t1)
                twice == ToggledTasks(once, id, t2)
                i     == Position(tasks, id)
            IN  /\ once[i].completed # tasks[i].completed
                /\ twice[i].completed = tasks[i].completed
                /\ Ids(FilterCompleted(twice, TRUE)) = Ids(completedTasks)
                /\ Ids(FilterCompleted(twice, FALSE)) = Ids(pendingTasks)
                /\ twice = [tasks EXCEPT ![i].updatedAt = t2]

\* a task was toggled and toggled back: it is pending again and was touched
\* after its creation
C29_Witness ==
    /\ lastOp.op = "toggleTaskComplete" /\ lastOp.ok
    /\ Present(tasks, lastOp.id)
    /\ ~tasks[Position(tasks, lastOp.id)].completed
    /\ tasks[Position(tasks, lastOp.id)].updatedAt
            > tasks[Position(tasks, lastOp.id)].createdAt

----------------------------------------------------------------------------
(* Properties of the components *)

\* what C22 says the filter returns for the list ts
FilteredAs(ts, filter) ==
    CASE filter = "all"       -> ts
      [] filter = "pending"   -> SelectSeq(ts, LAMBDA task : task.completed = FALSE)
      [] filter = "completed" -> SelectSeq(ts, LAMBDA task : task.completed = TRUE)

\* C22: the display filter returns, for 'all', the given list unchanged and
\* in its order, for 'pending' the subsequence with completed = false and
\* for 'completed' the subsequence with completed = true, in TaskList (of the
\* list it is given) and in TaskView (of the collection); setting the filter
\* changes neither the collection nor the id counter.
C22_DisplayFilter ==
    [][ /\ \A filter \in FilterInputs :
            /\ TaskListFilteredTasks(tasks, filter) = FilteredAs(tasks, filter)
            /\ TaskViewFilteredTasks(filter) = FilteredAs(tasks, filter)
        /\ DisplayedTasks = FilteredAs(tasks, currentFilter)
        /\ currentFilter' # currentFilter => (tasks' = tasks /\ nextId' = nextId)
        /\ \A filter \in FilterInputs :
              SetFilter(filter) => (tasks' = tasks /\ nextId' = nextId) ]_vars

\* the filter was set to 'pending' while the first task is completed and the
\* second is not: the second is the one displayed, and the collection still
\* holds both
C22_Witness ==
    /\ currentFilter = "pending"
    /\ Len(tasks) = 2
    /\ tasks[1].completed /\ ~tasks[2].completed
    /\ DisplayedTasks = <<tasks[2]>>

\* C26: the Delete action of a displayed item deletes that task: the delete
\* event carries the id of the task whose item was clicked, and exactly that
\* task is removed from the collection.
C26_DeleteRemovesClicked ==
    [][ \A k \in 1..Len(DisplayedTasks) :
            TaskItemHandleDelete(k)
                => /\ emitted' = << Event("delete", <<DisplayedTasks[k].id>>) >>
                   /\ tasks' = Without(tasks, DisplayedTasks[k].id) ]_vars

\* C27: TaskInput's addTask with a title that is blank after trimming emits
\* nothing and leaves the form as it is; with a non-blank title it emits one
\* add event with the trimmed title and the trimmed description and resets
\* the form to '', '', false, and the event makes the store append exactly
\* one task, which carries them; cancelAdd resets the form and emits nothing.
C27_FormAdd ==
    [][ /\ TaskInputAddTask =>
              IF Trim(form.title) = <<>>
              THEN /\ emitted' = <<>>
                   /\ form' = form
                   /\ tasks' = tasks /\ nextId' = nextId
              ELSE /\ emitted' = << Event("add", <<Trim(form.title),
                                                   Trim(form.description)>>) >>
                   /\ form' = [ title |-> <<>>, description |-> <<>>,
                                isExpanded |-> FALSE ]
                   /\ Len(tasks') = Len(tasks) + 1
                   /\ SubSeq(tasks', 1, Len(tasks)) = tasks
                   /\ tasks'[Len(tasks')].title = Trim(form.title)
                   /\ tasks'[Len(tasks')].description = Trim(form.description)
        /\ CancelAdd =>
              /\ form' = [ title |-> <<>>, description |-> <<>>,
                           isExpanded |-> FALSE ]
              /\ emitted' = <<>>
              /\ tasks' = tasks /\ nextId' = nextId ]_vars

\* the form was submitted a second time: the add event carries the trimmed
\* texts, the form is reset and the store holds a second task with them
C27_Witness ==
    /\ emitted = << Event("add", << <<97>>, <<100>> >>) >>
    /\ form = EmptyForm
    /\ lastOp.op = "addTask" /\ lastOp.ok
    /\ Len(tasks) = 2
    /\ LastTask.title = <<97>> /\ LastTask.description = <<100>>

\* C28: the list is filtered twice with the same filter, by TaskView and
\* then by TaskList; for every reachable store state and every filter the
\* list displayed is the view of the store that TaskView picked: the second
\* pass removes nothing.
C28_SecondPassRemovesNothing ==
    /\ \A filter \in FilterInputs :
          TaskListFilteredTasks(TaskViewFilteredTasks(filter), filter)
              = TaskViewFilteredTasks(filter)
    /\ DisplayedTasks = TaskViewFilteredTasks(currentFilter)

\* the filter is 'completed' and the second of two tasks is the completed
\* one: it is the one displayed
C28_Witness ==
    /\ currentFilter = "completed"
    /\ Len(tasks) = 2
    /\ ~tasks[1].completed /\ tasks[2].completed
    /\ DisplayedTasks = <<tasks[2]>>
    /\ DisplayedTasks = completedTasks

====
